---- MODULE Spec2Model ----
(***************************************************************************)
(* Model of the RPC layer of location-guard:                               *)
(*   - PostRPC (src/js/common/post-rpc.js): RPC over window.postMessage,   *)
(*     the "Window Binding";                                               *)
(*   - Browser.rpc (src/unnamed/part_000): RPC over runtime.onMessage,     *)
(*     the "Channel Binding".                                              *)
(* Spec     is the behaviour of PostRPC instances wired to windows.        *)
(* SpecChan is the behaviour of Browser.rpc's register and _listener.      *)
(***************************************************************************)
EXTENDS Integers, Sequences, FiniteSets, TLC

VARIABLES
    \* ---- PostRPC --------------------------------------------------------
    _id,        \* instance -> this._id
    _ns,        \* instance -> this._ns
    _sendObj,   \* instance -> this._sendObj (a window)
    receiveObj, \* instance -> window it listens on, or Null
    _calls,     \* instance -> (callId -> continuation | Absent)
    _methods,   \* instance -> (method name -> handler | NoHandler)
    win,        \* window -> queue of posted native messages
    awaiting,   \* suspended _receiveMessage activations (line 59, await)
    \* ---- history of the PostRPC run (not read by the program) -----------
    calls,      \* the call() invocations made so far, in order
    fired,      \* call number -> values its continuation was applied to
    tags,       \* window -> for each queued message: who posted it, for which call
    log,        \* what _receiveMessage did with the messages it received
    overlap,    \* pairs of calls of one instance outstanding at the same time
    nregs,      \* number of register() invocations made
    \* ---- Browser.rpc ----------------------------------------------------
    rpcMethods, \* Browser.rpc._methods: [defined, tbl]; defined is FALSE before
                \* the first register
    onMessage,  \* number of listeners added to browser.runtime.onMessage
    reqs,       \* the messages dispatched to _listener so far, with their outcome
    nchanregs   \* number of Browser.rpc.register invocations made

vars == <<_id, _ns, _sendObj, receiveObj, _calls, _methods, win, awaiting,
          calls, fired, tags, log, overlap, nregs,
          rpcMethods, onMessage, reqs, nchanregs>>

postVars == <<_id, _ns, _sendObj, receiveObj, _calls, _methods, win, awaiting,
              calls, fired, tags, log, overlap, nregs>>

chanVars == <<rpcMethods, onMessage, reqs, nchanregs>>

----------------------------------------------------------------------------
\* Bounds of the model

MaxCalls == 2
MaxRegs == 1
MaxReqs == 2
MaxChanRegs == 2
MaxOther == 1

----------------------------------------------------------------------------
\* Values

Undefined == "undefined"
Null == "null"
NoHandler == "none"
Absent == 0

Inst == {"A", "B"}
InstOrder == <<"A", "B">>
Windows == {"w1", "w2"}

\* How the instances are constructed (lines 11-21): name, sendObj, receiveObj.
\*   frames: A and B sit in two windows and post to each other's window;
\*   shared: A and B both post to and listen on one window (lines 6-7).
Frames ==
    [send |-> [A |-> "w2", B |-> "w1"], recv |-> [A |-> "w1", B |-> "w2"]]
SharedWindow ==
    [send |-> [A |-> "w1", B |-> "w1"], recv |-> [A |-> "w1", B |-> "w1"]]
Wirings == {Frames, SharedWindow}
NameChoices == {[A |-> "p", B |-> "p"], [A |-> "p", B |-> "q"]}
\* this._id is random (line 12): the two instances draw different ids, or the same
IdChoices == {[A |-> 1, B |-> 2], [A |-> 1, B |-> 1]}

\* Math.floor(Math.random()*1000000): a value of a finite id space
RandomIds == {1, 2}

\* Argument values, as strings
ArgVals == {"1"}
ArgLists == {<<v>> : v \in ArgVals}

\* Handlers a client registers:
\*   echo    returns its first argument;
\*   later   returns a Promise that is settled later (fulfilled with its
\*           first argument, or rejected);
\*   throws  throws.
Handlers == {"echo", "later", "throws"}
PostHandlers == {"echo", "later", "throws"}

\* Object.prototype.toString, which every object literal {} inherits
ProtoToString == "Object.prototype.toString"

\* Method names used by callers. "" is the empty string; "toString" is a
\* name that every {} inherits from Object.prototype.
Methods == {"", "m", "toString"}
RegNames == {"", "m"}

First(args) == IF Len(args) > 0 THEN args[1] ELSE Undefined

\* Value a handler returns (or its Promise is fulfilled with) for args
HandlerValue(h, args) ==
    IF h = ProtoToString THEN "[object Null]" ELSE First(args)

----------------------------------------------------------------------------
\* PostRPC

\* this._ns = '__PostRPC_' + name
NsOf(name) == <<"__PostRPC_", name>>

\* obj[name] for obj created as {} : own property, else inherited
Lookup(obj, name) ==
    IF name \in DOMAIN obj /\ obj[name] # NoHandler THEN obj[name]
    ELSE IF name = "toString" THEN ProtoToString
    ELSE NoHandler

\* if(data.method): the field is present and not the empty string
MethodTruthy(data) == "method" \in DOMAIN data /\ data.method # ""

\* temp = {}; temp[this._ns] = message
Wrap(ns, message) == [ns |-> ns, data |-> message]

Request(method, args, callId, from) ==
    [method |-> method, args |-> args, callId |-> callId, from |-> from]

Response(callId, res) == [callId |-> callId, value |-> <<res>>]

\* this._sendObj.postMessage(temp, this._targetOrigin), on the run state st
SendMessage(st, i, message, k) ==
    [st EXCEPT !.win[_sendObj[i]] = Append(@, Wrap(_ns[i], message)),
               !.tags[_sendObj[i]] = Append(@, [by |-> i, call |-> k])]

\* A variant that takes any message for an envelope of this instance
AnyEnvelope(ns, ev) == TRUE

\* event.data && event.data[this._ns] is an envelope
HasEnvelope(ns, ev) == ev.ns = ns

\* A variant that clears the whole registry
DeleteEveryCall(reg, callId) == [c \in DOMAIN reg |-> Absent]

\* delete this._calls[callId]
DeleteCall(reg, callId) == [reg EXCEPT ![callId] = Absent]

\* c.apply(null, data.value): resolve(value[0])
ApplyValue(data) ==
    IF "value" \in DOMAIN data THEN First(data.value) ELSE Undefined

\* An entry of the history: instance `to` did `what` with the message of
\* call number `call`
Event(what, to, call, handler, args) ==
    [what |-> what, to |-> to, call |-> call, handler |-> handler, args |-> args]

Note(st, e) == [st EXCEPT !.log = @ \cup {e}]

\* lines 62-68: the return-value path
ReceiveResponse(st, i, data, k) ==
    LET c == st.calls[i][data.callId]
        st1 == [st EXCEPT !.calls[i] = DeleteCall(@, data.callId)]
    IN
    IF c = Absent THEN Note(st1, Event("unmatched", i, k, NoHandler, <<>>))
    ELSE [st1 EXCEPT !.fired[c] = Append(@, ApplyValue(data))]

\* line 51: we made this call, the other side should reply
IsLoopback(i, data) == data.from = _id[i]

\* lines 49-61: the message-call path, up to the await of line 59
ReceiveRequest(st, i, data, k) ==
    LET h == Lookup(_methods[i], data.method) IN
    IF IsLoopback(i, data) THEN st
    ELSE IF h = NoHandler
    THEN Note(st, Event("nohandler", i, k, NoHandler, data.args))
    ELSE LET st1 == Note(st, Event("invoke", i, k, h, data.args)) IN
         CASE h = "throws" -> Note(st1, Event("threw", i, k, h, <<>>))
           [] h = "later"  ->
                [st1 EXCEPT !.awaiting = @ \cup
                    {[inst |-> i, callId |-> data.callId,
                      res |-> HandlerValue(h, data.args), call |-> k]}]
           [] OTHER ->
                SendMessage(st1, i,
                    Response(data.callId, HandlerValue(h, data.args)), k)

\* The handler registered under the name as an own property, if any
Registered(obj, name) ==
    IF name \in DOMAIN obj THEN obj[name] ELSE NoHandler

\* lines 45-69. The history notes each Request envelope that arrives, with
\* the handler the receiver has registered for its method at that time.
ReceiveMessage(st, i, ev, k) ==
    IF ~HasEnvelope(_ns[i], ev) THEN st
    ELSE LET st1 == IF "method" \in DOMAIN ev.data
                    THEN Note(st, Event("request", i, k,
                              Registered(_methods[i], ev.data.method), <<>>))
                    ELSE st
         IN IF MethodTruthy(ev.data) THEN ReceiveRequest(st1, i, ev.data, k)
            ELSE ReceiveResponse(st1, i, ev.data, k)

\* The window dispatches the event to its listeners in the order they were
\* added (line 20).
RECURSIVE Dispatch(_, _, _, _, _)
Dispatch(st, w, ev, k, n) ==
    IF n > Len(InstOrder) THEN st
    ELSE LET i == InstOrder[n]
             st1 == IF receiveObj[i] = w THEN ReceiveMessage(st, i, ev, k)
                    ELSE st
         IN Dispatch(st1, w, ev, k, n + 1)

RunState ==
    [calls |-> _calls, win |-> win, tags |-> tags, awaiting |-> awaiting,
     fired |-> fired, log |-> log]

Commit(st) ==
    /\ _calls' = st.calls
    /\ win' = st.win
    /\ tags' = st.tags
    /\ awaiting' = st.awaiting
    /\ fired' = st.fired
    /\ log' = st.log

\* lines 24-26
Register(i, name, fun) ==
    /\ nregs < MaxRegs
    /\ nregs' = nregs + 1
    /\ _methods' = [_methods EXCEPT ![i][name] = fun]
    /\ UNCHANGED <<_id, _ns, _sendObj, receiveObj, _calls, win, awaiting,
                   calls, fired, tags, log, overlap>>
    /\ UNCHANGED chanVars

\* line 30: this._calls[callId] = resolve, the continuation of call k
RecordCall(reg, callId, k) == [reg EXCEPT ![callId] = k]

\* Calls of instance i that are in its registry
Outstanding(i) == {k \in 1..Len(calls) : \E c \in RandomIds : _calls[i][c] = k}

\* lines 27-35
\* given = FALSE: the caller passes no args (line 31)
Call(i, method, given, argsIn, callId) ==
    LET k == Len(calls) + 1
        args == IF given THEN argsIn ELSE <<>>
        st == SendMessage(
                  [RunState EXCEPT !.calls[i] = RecordCall(@, callId, k)], i,
                  Request(method, args, callId, _id[i]), k)
    IN
    /\ Len(calls) < MaxCalls
    /\ calls' = Append(calls, [inst |-> i, method |-> method, args |-> args,
                               callId |-> callId,
                               fresh |-> _calls[i][callId] = Absent])
    /\ overlap' = overlap \cup {<<j, k>> : j \in Outstanding(i)}
    /\ Commit(st)
    /\ UNCHANGED <<_id, _ns, _sendObj, receiveObj, _methods, nregs>>
    /\ UNCHANGED chanVars

\* The window w delivers its oldest message event to its listeners
Deliver(w) ==
    /\ win[w] # <<>>
    /\ LET st0 == [RunState EXCEPT !.win[w] = Tail(@), !.tags[w] = Tail(@)]
       IN Commit(Dispatch(st0, w, Head(win[w]), Head(tags[w]).call, 1))
    /\ UNCHANGED <<_id, _ns, _sendObj, receiveObj, _methods, calls, overlap, nregs>>
    /\ UNCHANGED chanVars

\* A message of some other script on the page: its data has no property
\* named by a PostRPC namespace
OtherNs == <<"other">>
OtherData == [callId |-> 1, value |-> <<"1">>]
NoOne == "none"

\* Number of queued messages of other scripts
RECURSIVE CountOther(_)
CountOther(q) ==
    IF q = <<>> THEN 0
    ELSE (IF Head(q).ns = OtherNs THEN 1 ELSE 0) + CountOther(Tail(q))

\* Some other script posts a message to the window w (lines 39, 46)
Unrelated(w) ==
    /\ CountOther(win["w1"]) + CountOther(win["w2"]) < MaxOther
    /\ win' = [win EXCEPT ![w] = Append(@, Wrap(OtherNs, OtherData))]
    /\ tags' = [tags EXCEPT ![w] = Append(@, [by |-> NoOne, call |-> 0])]
    /\ UNCHANGED <<_id, _ns, _sendObj, receiveObj, _calls, _methods, awaiting,
                   calls, fired, log, overlap, nregs>>
    /\ UNCHANGED chanVars

\* The Promise awaited at line 59 is fulfilled: line 60 runs
Fulfil(a) ==
    /\ a \in awaiting
    /\ Commit(SendMessage(
            Note([RunState EXCEPT !.awaiting = @ \ {a}],
                 Event("fulfilled", a.inst, a.call, "later", <<>>)),
            a.inst, Response(a.callId, a.res), a.call))
    /\ UNCHANGED <<_id, _ns, _sendObj, receiveObj, _methods, calls, overlap, nregs>>
    /\ UNCHANGED chanVars

\* The Promise awaited at line 59 is rejected: _receiveMessage ends there
Reject(a) ==
    /\ a \in awaiting
    /\ awaiting' = awaiting \ {a}
    /\ log' = log \cup {Event("rejected", a.inst, a.call, "later", <<>>)}
    /\ UNCHANGED <<_id, _ns, _sendObj, receiveObj, _calls, _methods, win,
                   calls, fired, tags, overlap, nregs>>
    /\ UNCHANGED chanVars

\* lines 11-21: the instances as constructed
InitPost ==
    /\ _id \in IdChoices
    /\ \E nm \in NameChoices : _ns = [i \in Inst |-> NsOf(nm[i])]
    /\ \E wi \in Wirings : _sendObj = wi.send /\ receiveObj = wi.recv
    /\ _calls = [i \in Inst |-> [c \in RandomIds |-> Absent]]
    /\ _methods = [i \in Inst |-> [m \in RegNames |-> NoHandler]]
    /\ win = [w \in Windows |-> <<>>]
    /\ tags = [w \in Windows |-> <<>>]
    /\ awaiting = {}
    /\ calls = <<>>
    /\ fired = [k \in 1..MaxCalls |-> <<>>]
    /\ log = {}
    /\ overlap = {}
    /\ nregs = 0

----------------------------------------------------------------------------
\* Browser.rpc

ChanRegNames == {"m", "n"}
ChanMethods == {"m", "n"}
TabIds == {"7", "9"}
NoTab == "none"

\* Messages { method: ..., args: ... } a peer sends; args may be left out
ChanMessages ==
    [method : ChanMethods, args : {<<>>}, hasArgs : {FALSE}]
    \cup [method : ChanMethods, args : {<<>>} \cup ArgLists, hasArgs : {TRUE}]

\* message.args || []
MessageArgs(message) == IF message.hasArgs THEN message.args ELSE <<>>

\* sender.tab ? sender.tab.id : null
SenderTabId(sender) == IF sender.tab # NoTab THEN sender.tab ELSE Null

\* A variant that puts the tab id in front of the arguments
UnshiftTabId(args, tabId) == <<tabId>> \o args

\* args.push(tabId)
PushTabId(args, tabId) == Append(args, tabId)

\* res instanceof Promise
IsPromise(h) == h = "later"

\* lines 103-111: what the listener returns for the handler's result
ListenerReturn(h) == IF IsPromise(h) THEN "true" ELSE "false"

\* A variant that replies at once whatever the result is
RepliesAtOnce(h, args) == <<HandlerValue(h, args)>>

\* lines 103-111: the calls of replyHandler made before the listener returns
RepliesAtReturn(h, args) ==
    IF IsPromise(h) THEN <<>> ELSE <<HandlerValue(h, args)>>

\* lines 91-112, one run of the listener; args is the array message.args
\* refers to (line 100 pushes onto that same array)
ListenerRun(message, sender, args) ==
    LET h == Lookup(rpcMethods.tbl, message.method)
        a == PushTabId(args, SenderTabId(sender))
        base == [method |-> message.method, tab |-> sender.tab,
                 sent |-> MessageArgs(message), handler |-> h,
                 invoked |-> <<>>, ret |-> Undefined, replies |-> <<>>,
                 atReturn |-> 0, settled |-> "none", value |-> Undefined]
    IN
    IF h = NoHandler THEN base
    ELSE IF h = "throws"
    THEN [base EXCEPT !.invoked = <<a>>, !.ret = "threw"]
    ELSE [base EXCEPT !.invoked = <<a>>,
                      !.ret = ListenerReturn(h),
                      !.replies = RepliesAtReturn(h, a),
                      !.atReturn = Len(RepliesAtReturn(h, a)),
                      !.settled = IF IsPromise(h) THEN "pending" ELSE "none",
                      !.value = HandlerValue(h, a)]

\* The listener as each of the n listeners added to onMessage runs it, one
\* after the other, on the same message object
RECURSIVE ListenerRuns(_, _, _, _)
ListenerRuns(message, sender, args, n) ==
    IF n <= 1 THEN ListenerRun(message, sender, args)
    ELSE LET r == ListenerRuns(message, sender, args, n - 1)
             pushed == IF r.invoked = <<>> THEN args
                       ELSE r.invoked[Len(r.invoked)]
             x == ListenerRun(message, sender, pushed)
         IN [r EXCEPT !.invoked = @ \o x.invoked,
                      !.replies = @ \o x.replies,
                      !.atReturn = @ + x.atReturn]

\* A variant that adds the listener at every registration
AddsListenerAlways(methods) == 1

\* lines 81-84: the number of listeners a registration adds
AddsListener(methods) == IF methods.defined THEN 0 ELSE 1

\* lines 79-86
ChanRegister(name, handler) ==
    /\ nchanregs < MaxChanRegs
    /\ nchanregs' = nchanregs + 1
    /\ rpcMethods' =
          [defined |-> TRUE, tbl |-> [rpcMethods.tbl EXCEPT ![name] = handler]]
    /\ onMessage' = onMessage + AddsListener(rpcMethods)
    /\ UNCHANGED reqs
    /\ UNCHANGED postVars

\* browser.runtime.onMessage fires: every listener added at line 83 runs
Listener(message, sender) ==
    /\ onMessage > 0
    /\ Len(reqs) < MaxReqs
    /\ reqs' = Append(reqs, ListenerRuns(message, sender, MessageArgs(message),
                                         onMessage))
    /\ UNCHANGED <<rpcMethods, onMessage, nchanregs>>
    /\ UNCHANGED postVars

\* line 105: the handler's Promise is fulfilled, then(replyHandler) runs
ChanFulfil(r) ==
    /\ r \in 1..Len(reqs)
    /\ reqs[r].settled = "pending"
    /\ reqs' = [reqs EXCEPT ![r].settled = "fulfilled",
                            ![r].replies = Append(@, reqs[r].value)]
    /\ UNCHANGED <<rpcMethods, onMessage, nchanregs>>
    /\ UNCHANGED postVars

\* line 105: the handler's Promise is rejected, replyHandler is not called
ChanReject(r) ==
    /\ r \in 1..Len(reqs)
    /\ reqs[r].settled = "pending"
    /\ reqs' = [reqs EXCEPT ![r].settled = "rejected"]
    /\ UNCHANGED <<rpcMethods, onMessage, nchanregs>>
    /\ UNCHANGED postVars

InitChanIdle ==
    /\ rpcMethods = [defined |-> FALSE, tbl |-> [m \in ChanRegNames |-> NoHandler]]
    /\ onMessage = 0
    /\ reqs = <<>>
    /\ nchanregs = 0

Init == InitPost /\ InitChanIdle

NextChan ==
    \/ \E name \in ChanRegNames, handler \in Handlers : ChanRegister(name, handler)
    \/ \E message \in ChanMessages, sender \in [tab : TabIds \cup {NoTab}] :
            Listener(message, sender)
    \/ \E r \in 1..MaxReqs : ChanFulfil(r)
    \/ \E r \in 1..MaxReqs : ChanReject(r)

\* Browser.rpc runs in the extension's scripts, apart from any PostRPC traffic
InitChan ==
    /\ InitPost
    /\ _id = [A |-> 1, B |-> 2]
    /\ _ns = [i \in Inst |-> NsOf("p")]
    /\ _sendObj = Frames.send
    /\ InitChanIdle

SpecChan == InitChan /\ [][NextChan]_vars

Next ==
    \/ \E i \in Inst, name \in RegNames, fun \in PostHandlers : Register(i, name, fun)
    \/ \E i \in Inst, method \in Methods, given \in BOOLEAN,
          argsIn \in ArgLists, callId \in RandomIds :
            Call(i, method, given, argsIn, callId)
    \/ \E w \in Windows : Deliver(w)
    \/ \E a \in awaiting : Fulfil(a)
    \/ \E a \in awaiting : Reject(a)

Spec == Init /\ [][Next]_vars

\* The instances on windows that other scripts post messages to as well
NextTraffic ==
    \/ Next
    \/ \E w \in Windows : Unrelated(w)

SpecTraffic == Init /\ [][NextTraffic]_vars

----------------------------------------------------------------------------
\* Properties

CallNos == 1..Len(calls)

\* No message is queued and no handler result is unsettled
Quiet == awaiting = {} /\ \A w \in Windows : win[w] = <<>>

\* The entry of call k is in its instance's Call Registry
InRegistry(k) == _calls[calls[k].inst][calls[k].callId] = k

\* The Request of call k arrived at a peer that had a handler registered for
\* its method, and no handler serving it threw or had its result rejected
ServedByPeer(k) ==
    /\ \E e \in log : /\ e.what = "request" /\ e.call = k
                       /\ e.to # calls[k].inst /\ e.handler \in PostHandlers
    /\ ~\E e \in log : e.what \in {"rejected", "threw"} /\ e.call = k

\* C1: round trip. Once nothing is in transit or unsettled, a call whose
\* Request arrived at a peer having its method registered is resolved, with
\* the value the handler returns for the call's args (here: the first one).
C1_RoundTrip ==
    \A k \in CallNos :
        (Quiet /\ ServedByPeer(k)) => fired[k] = <<First(calls[k].args)>>

\* The values handler invocations for the Request of call k returned
OwnValues(k) ==
    {HandlerValue(e.handler, e.args) :
        e \in {x \in log : x.what = "invoke" /\ x.call = k}}

\* C2: of two calls of one instance that were outstanding at the same time,
\* each is resolved only with a value returned by a handler invocation for
\* its own Request.
C2_OwnValue ==
    \A p \in overlap : \A k \in {p[1], p[2]} :
        \A n \in 1..Len(fired[k]) : fired[k][n] \in OwnValues(k)

\* C3: every id call() allocated differed from the ids of the Pending Calls
\* outstanding in the instance's Call Registry at that time.
C3_FreshIds == \A k \in CallNos : calls[k].fresh

\* Number of queued messages posted by instance i
RECURSIVE CountBy(_, _)
CountBy(i, tg) ==
    IF tg = <<>> THEN 0
    ELSE (IF Head(tg).by = i THEN 1 ELSE 0) + CountBy(i, Tail(tg))

Queued(i) == CountBy(i, tags["w1"]) + CountBy(i, tags["w2"])
QueuedNext(i) == CountBy(i, tags'["w1"]) + CountBy(i, tags'["w2"])

\* In a step that delivers the head of window w, instance i posts nothing
PostsNothing(i, w) ==
    QueuedNext(i) = Queued(i) - (IF Head(tags[w]).by = i THEN 1 ELSE 0)

\* In this step instance i invokes no handler
InvokesNothing(i) ==
    {e \in log' : e.what = "invoke" /\ e.to = i} \subseteq log

\* C4: loopback filtering. When a Request that instance i sent is delivered
\* back to i, i invokes no handler, posts nothing, and its Call Registry is
\* unchanged.
C4_Loopback ==
    [][\A w \in Windows, i \in Inst :
        (/\ Deliver(w)
         /\ receiveObj[i] = w
         /\ Head(tags[w]).by = i
         /\ "method" \in DOMAIN Head(win[w]).data)
        => (/\ _calls'[i] = _calls[i]
            /\ InvokesNothing(i)
            /\ PostsNothing(i, w))]_vars

\* The Request of call k arrived somewhere, and only at receivers whose
\* Method Registry has no entry for its method
UnknownMethod(k) ==
    /\ \E e \in log : e.what = "request" /\ e.call = k
    /\ \A e \in log : (e.what = "request" /\ e.call = k) => e.handler = NoHandler

\* C5: unknown method. A call whose Request names a method that no receiver
\* has registered has no handler invoked, gets no Response, and its Pending
\* Call stays in the Call Registry, unresolved.
C5_UnknownMethod ==
    \A k \in CallNos :
        UnknownMethod(k) =>
            /\ ~\E e \in log : e.what = "invoke" /\ e.call = k
            /\ fired[k] = <<>>
            /\ InRegistry(k)

\* Instance i listens on w, and the head of w is a Response envelope (one
\* without a method field) in i's namespace
ResponseFor(i, w) ==
    /\ receiveObj[i] = w
    /\ HasEnvelope(_ns[i], Head(win[w]))
    /\ "method" \notin DOMAIN Head(win[w]).data

\* C6: a Response whose correlation id matches no entry of the receiver's
\* Call Registry is a no-op: the registry is unchanged, no continuation of
\* the receiver's calls is fired, and the receiver posts nothing.
C6_UnmatchedResponse ==
    [][\A w \in Windows, i \in Inst :
        (/\ Deliver(w)
         /\ ResponseFor(i, w)
         /\ _calls[i][Head(win[w]).data.callId] = Absent)
        => (/\ _calls'[i] = _calls[i]
            /\ \A k \in CallNos : calls[k].inst = i => fired'[k] = fired[k]
            /\ PostsNothing(i, w))]_vars

\* An unmatched Response (to a later call j of the other instance) reached
\* an instance whose own earlier call k is still in its registry
C6_Witness ==
    \E e \in log : \E k \in CallNos :
        /\ e.what = "unmatched"
        /\ e.to = calls[k].inst
        /\ k < e.call
        /\ calls[e.call].inst # e.to
        /\ InRegistry(k)
        /\ fired[k] = <<>>

\* C7: the state machine of a call. Its continuation is fired at most once,
\* and its entry leaves the Call Registry only in a step that delivers a
\* Response carrying its correlation id, which fires the continuation.
C7_StateMachine ==
    [][\A k \in CallNos :
        /\ Len(fired'[k]) <= 1
        /\ (InRegistry(k) /\ _calls'[calls[k].inst][calls[k].callId] # k)
            => \E w \in Windows :
                  /\ Deliver(w)
                  /\ ResponseFor(calls[k].inst, w)
                  /\ Head(win[w]).data.callId = calls[k].callId
                  /\ Len(fired'[k]) = Len(fired[k]) + 1]_vars

\* The handler serving call k returned a Promise, which was fulfilled
DeferredDone(k) ==
    /\ \E e \in log : e.what = "invoke" /\ e.call = k /\ e.handler = "later"
    /\ \E e \in log : e.what = "fulfilled" /\ e.call = k

\* C8: async handler. A call served by a handler whose deferred result was
\* fulfilled is, once nothing is in transit, resolved with that result.
C8_AsyncValue ==
    \A k \in CallNos :
        (Quiet /\ DeferredDone(k)) => fired[k] = <<First(calls[k].args)>>

\* While the handler's Promise for call j is unsettled, the Response to the
\* later call k has been posted by the same receiver
C8_Overtake ==
    \E a \in awaiting : \E k \in CallNos :
        /\ a.call < k
        /\ \E e \in log : e.what = "fulfilled" /\ e.call = k /\ e.to = a.inst

----------------------------------------------------------------------------
\* Properties of Browser.rpc

ReqNos == 1..Len(reqs)

\* The request names a method that a register call has put in the registry
ForRegistered(r) == reqs[r].handler \in Handlers

Last(seq) == seq[Len(seq)]

\* The peer identifier the handler is to see for a sender
PeerId(tab) == IF tab = NoTab THEN Null ELSE tab

Deferred == {"later"}
Immediate == {"echo"}

\* C10: the reply protocol. For a registered method the listener returns
\* true exactly for a deferred result and false exactly for an immediate
\* one. An immediate result is passed to replyHandler before the listener
\* returns. For a deferred result replyHandler is not called before the
\* listener returns, nor while the Promise is pending; it is called once,
\* with the value, when the Promise is fulfilled.
C10_ReplyProtocol ==
    \A r \in ReqNos :
        (ForRegistered(r) /\ reqs[r].ret # "threw") =>
            LET q == reqs[r]
                v == First(q.invoked[1])
            IN
            /\ (q.ret = "true") <=> (q.handler \in Deferred)
            /\ (q.ret = "false") <=> (q.handler \in Immediate)
            /\ q.handler \in Immediate => (q.atReturn = 1 /\ q.replies = <<v>>)
            /\ q.handler \in Deferred =>
                  /\ q.atReturn = 0
                  /\ q.settled = "pending" => q.replies = <<>>
                  /\ q.settled = "rejected" => q.replies = <<>>
                  /\ q.settled = "fulfilled" => q.replies = <<v>>

\* A deferred result that was fulfilled and an immediate result
C10_Witness ==
    \E r, q \in ReqNos :
        /\ reqs[r].handler \in Deferred /\ reqs[r].settled = "fulfilled"
        /\ reqs[r].replies # <<>>
        /\ reqs[q].handler \in Immediate /\ reqs[q].ret = "false"

\* C11: after one or more register calls the listener is installed exactly
\* once (and not at all before the first), so each inbound request invokes
\* its handler at most once.
C11_InstalledOnce ==
    /\ onMessage = (IF nchanregs >= 1 THEN 1 ELSE 0)
    /\ \A r \in ReqNos : Len(reqs[r].invoked) <= 1

\* Two registrations were made, for two names, and a request for each name
\* invoked its handler: the later-registered name was requested after both
C11_Witness ==
    /\ nchanregs >= 2
    /\ onMessage = 1
    /\ \A n \in ChanRegNames : rpcMethods.tbl[n] # NoHandler
    /\ \A n \in ChanRegNames :
          \E r \in ReqNos : reqs[r].method = n /\ Len(reqs[r].invoked) = 1

\* A handler serving the Request of call k threw, or its result was rejected
Failed(k) == \E e \in log : e.what \in {"threw", "rejected"} /\ e.call = k

\* A receiver posted a Response for the Request of call k: at once for an
\* immediate result (line 60), or when the awaited result was fulfilled
Responded(k) ==
    \E e \in log :
        /\ e.call = k
        /\ \/ e.what = "fulfilled"
           \/ e.what = "invoke" /\ e.handler \notin {"later", "throws"}

\* C12: handler failure. When the handler serving a call's Request throws or
\* has its deferred result rejected, no Response is sent for that Request,
\* and the call's Pending Call stays in the Call Registry, unresolved.
C12_HandlerFailure ==
    \A k \in CallNos :
        Failed(k) => (~Responded(k) /\ fired[k] = <<>> /\ InRegistry(k))

\* C12 on Browser.rpc: a handler that throws, or whose Promise is rejected,
\* has replyHandler never called.
C12_ChanFailure ==
    \A r \in ReqNos :
        (reqs[r].ret = "threw" \/ reqs[r].settled = "rejected")
            => reqs[r].replies = <<>>

\* The message carries no envelope under instance i's namespace key
Foreign(i, ev) == ev.ns # _ns[i]

\* C13: a native message without an envelope under the receiver's own
\* namespace key is ignored: the receiver's Method Registry and Call
\* Registry are unchanged, it invokes no handler, fires no continuation and
\* posts nothing.
C13_ForeignIgnored ==
    [][\A w \in Windows, i \in Inst :
        (/\ Deliver(w)
         /\ receiveObj[i] = w
         /\ Foreign(i, Head(win[w])))
        => (/\ _calls'[i] = _calls[i]
            /\ _methods'[i] = _methods[i]
            /\ \A k \in CallNos : calls[k].inst = i => fired'[k] = fired[k]
            /\ InvokesNothing(i)
            /\ PostsNothing(i, w))]_vars

\* B, created with another name than A, sent a Request for a method A has
\* registered while a call of A was pending; everything has been delivered
C13_Witness ==
    /\ _ns["A"] # _ns["B"]
    /\ Quiet
    /\ \E j, k \in CallNos :
          /\ calls[j].inst = "A" /\ calls[k].inst = "B"
          /\ calls[j].callId = calls[k].callId
          /\ calls[k].method = "m"
          /\ _methods["A"]["m"] # NoHandler
          /\ InRegistry(j)
          /\ ~\E e \in log : e.call = k

\* Instance i listens on w, and the head of w is a Request envelope (one
\* with a method field) in i's namespace, posted by another instance
RequestFor(i, w) ==
    /\ receiveObj[i] = w
    /\ HasEnvelope(_ns[i], Head(win[w]))
    /\ "method" \in DOMAIN Head(win[w]).data
    /\ Head(tags[w]).by # i

\* In this step instance i invokes handler h for the Request of call k
Invokes(i, k, h) ==
    \E e \in log' \ log :
        e.what = "invoke" /\ e.to = i /\ e.call = k /\ e.handler = h

\* C14: registration is last-write-wins. A register call leaves the name
\* mapped to the handler given, whatever was there, and a Request for a
\* name delivered afterwards invokes the handler registered last for it,
\* and no other.
C14_LastWriteWins ==
    [][/\ \A i \in Inst, name \in RegNames, fun \in PostHandlers :
            Register(i, name, fun) => _methods'[i][name] = fun
       /\ \A w \in Windows, i \in Inst :
            (/\ Deliver(w)
             /\ RequestFor(i, w)
             /\ Registered(_methods[i], Head(win[w]).data.method) # NoHandler)
            => /\ Invokes(i, Head(tags[w]).call,
                          Registered(_methods[i], Head(win[w]).data.method))
               /\ \A e \in log' \ log :
                     (e.what = "invoke" /\ e.to = i) =>
                        e.handler =
                            Registered(_methods[i], Head(win[w]).data.method)
      ]_vars

\* C14 without the empty name and with instance ids that differ
C14_NamedDistinct ==
    [][\A w \in Windows, i \in Inst :
            (/\ Deliver(w)
             /\ RequestFor(i, w)
             /\ _id["A"] # _id["B"]
             /\ Head(win[w]).data.method # ""
             /\ Registered(_methods[i], Head(win[w]).data.method) # NoHandler)
            => Invokes(i, Head(tags[w]).call,
                       Registered(_methods[i], Head(win[w]).data.method))
      ]_vars

\* C14 on Browser.rpc: a registration leaves the name mapped to the handler
\* given, and a request invokes the handler its name is mapped to.
C14_ChanLastWriteWins ==
    [][/\ \A name \in ChanRegNames, handler \in Handlers :
            ChanRegister(name, handler) => rpcMethods'.tbl[name] = handler
       /\ \A message \in ChanMessages, sender \in [tab : TabIds \cup {NoTab}] :
            (Listener(message, sender)
             /\ rpcMethods.tbl[message.method] # NoHandler)
            => /\ reqs'[Len(reqs')].handler = rpcMethods.tbl[message.method]
               /\ Len(reqs'[Len(reqs')].invoked) = 1
      ]_vars

\* Positions in the queue of window v, after this step, of the messages
\* posted in this step (only a delivery takes a message off, at the head)
NewAt(v) ==
    (Len(win[v]) - (IF Deliver(v) THEN 1 ELSE 0) + 1) .. Len(win'[v])

\* The Response envelopes posted in this step, each with its tag
NewResponses ==
    {[data |-> win'[v][n].data, by |-> tags'[v][n].by, call |-> tags'[v][n].call] :
        <<v, n>> \in {x \in Windows \X (1..(MaxCalls * 2 + MaxOther)) :
                        /\ x[2] \in NewAt(x[1])
                        /\ "method" \notin DOMAIN win'[x[1]][x[2]].data}}

\* Instance i has received the Request of call k, not sent by an instance
\* of its own id, while handler h was registered for its method
Accepted(i, k, h) ==
    /\ h # NoHandler
    /\ _id[calls[k].inst] # _id[i]
    /\ \E e \in log' :
          e.what = "request" /\ e.to = i /\ e.call = k /\ e.handler = h

\* C15: every Response an instance posts carries the correlation id of a
\* Request it received and accepted (not loopback, method registered) and
\* the handler's value in a one-element sequence, and it is the only
\* Response posted for that Request.
C15_Responses ==
    [][\A m \in NewResponses :
        /\ m.call \in CallNos
        /\ ~Responded(m.call)
        /\ m.data.callId = calls[m.call].callId
        /\ \E h \in PostHandlers :
              /\ Accepted(m.by, m.call, h)
              /\ m.data.value = <<HandlerValue(h, calls[m.call].args)>>
      ]_vars

\* C15 with "accepted" read as the code decides it at lines 51-52: the
\* receiver invoked the handler it found for the method
C15_AsInvoked ==
    [][\A m \in NewResponses :
        /\ m.call \in CallNos
        /\ ~Responded(m.call)
        /\ m.data.callId = calls[m.call].callId
        /\ \E e \in log' :
              /\ e.what = "invoke" /\ e.to = m.by /\ e.call = m.call
              /\ _id[calls[m.call].inst] # _id[m.by]
              /\ m.data.value = <<HandlerValue(e.handler, calls[m.call].args)>>
      ]_vars

\* The Request envelopes posted in this step, each with its tag
NewRequests ==
    {[data |-> win'[v][n].data, by |-> tags'[v][n].by, call |-> tags'[v][n].call] :
        <<v, n>> \in {x \in Windows \X (1..(MaxCalls * 2 + MaxOther)) :
                        /\ x[2] \in NewAt(x[1])
                        /\ "method" \in DOMAIN win'[x[1]][x[2]].data}}

\* Instance i listens on w, and the head of w is an envelope in i's
\* namespace that takes the return-value path of lines 62-68
ReturnPathFor(i, w) ==
    /\ receiveObj[i] = w
    /\ HasEnvelope(_ns[i], Head(win[w]))
    /\ ~MethodTruthy(Head(win[w]).data)

\* The head of w is the Response a peer posted for call k, and the caller
\* of k listens on w
ResponseTo(k, w) ==
    /\ win[w] # <<>>
    /\ ResponseFor(calls[k].inst, w)
    /\ Head(tags[w]).call = k
    /\ Head(tags[w]).by # calls[k].inst

\* C16: call() records the Pending Call before it sends the Request. When
\* a Request with correlation id c is posted by instance I, I's Call
\* Registry holds the call's continuation under c, so the Response to that
\* call, delivered at any time after the send, finds the continuation.
C16_RecordedBeforeSend ==
    [][/\ \A m \in NewRequests :
            /\ m.by \in Inst
            /\ m.data.from = _id[m.by]
            /\ _calls'[m.by][m.data.callId] = m.call
       /\ \A k \in CallNos : \A w \in Windows :
            (Deliver(w) /\ ResponseTo(k, w)) => InRegistry(k)
      ]_vars

\* What holds of C16: a Request posted finds its call's continuation in the
\* sender's registry, and the entry is afterwards replaced or removed only
\* by a later call of the sender drawing the same id or by the delivery to
\* the sender of an envelope of that id that takes the return-value path.
C16_EntryKept ==
    [][/\ \A m \in NewRequests :
            /\ m.by \in Inst
            /\ m.data.from = _id[m.by]
            /\ _calls'[m.by][m.data.callId] = m.call
       /\ \A k \in CallNos :
            (InRegistry(k) /\ _calls'[calls[k].inst][calls[k].callId] # k)
            => \/ /\ Len(calls') = Len(calls) + 1
                  /\ calls'[Len(calls')].inst = calls[k].inst
                  /\ calls'[Len(calls')].callId = calls[k].callId
               \/ \E w \in Windows :
                     /\ Deliver(w)
                     /\ ReturnPathFor(calls[k].inst, w)
                     /\ Head(win[w]).data.callId = calls[k].callId
      ]_vars

\* C17: an envelope that has a method field, whatever its value (the empty
\* string included), takes the Request path: its delivery neither removes
\* an entry of the receiver's Call Registry nor fires a continuation of the
\* receiver's calls, and notes no unmatched Response.
C17_ClassifyByPresence ==
    [][\A w \in Windows, i \in Inst :
        (/\ Deliver(w)
         /\ receiveObj[i] = w
         /\ HasEnvelope(_ns[i], Head(win[w]))
         /\ "method" \in DOMAIN Head(win[w]).data)
        => (/\ _calls'[i] = _calls[i]
            /\ \A k \in CallNos : calls[k].inst = i => fired'[k] = fired[k]
            /\ ~\E e \in log' \ log : e.what = "unmatched" /\ e.to = i)
      ]_vars

\* C17 for the method names that are not empty
C17_NonEmpty ==
    [][\A w \in Windows, i \in Inst :
        (/\ Deliver(w)
         /\ receiveObj[i] = w
         /\ HasEnvelope(_ns[i], Head(win[w]))
         /\ "method" \in DOMAIN Head(win[w]).data
         /\ Head(win[w]).data.method # "")
        => (/\ _calls'[i] = _calls[i]
            /\ \A k \in CallNos : calls[k].inst = i => fired'[k] = fired[k]
            /\ ~\E e \in log' \ log : e.what = "unmatched" /\ e.to = i)
      ]_vars

\* C18: on a window two instances share, a Response that instance i posted
\* (for the other's Request) and that is delivered back to i neither
\* removes an entry of i's Call Registry nor fires a continuation of i's
\* calls; a continuation of i is fired only by the delivery of a Response
\* posted for a Request of i.
C18_OwnResponseEcho ==
    [][\A w \in Windows, i \in Inst :
        /\ (/\ Deliver(w)
             /\ ResponseFor(i, w)
             /\ Head(tags[w]).by = i)
            => (/\ _calls'[i] = _calls[i]
                /\ \A k \in CallNos : calls[k].inst = i => fired'[k] = fired[k])
        /\ \A k \in CallNos :
              (calls[k].inst = i /\ fired'[k] # fired[k] /\ Deliver(w)
               /\ ResponseFor(i, w))
              => calls[Head(tags[w]).call].inst = i
      ]_vars

\* C18 when the callId of the Response is not the id of a call of i
C18_OtherId ==
    [][\A w \in Windows, i \in Inst :
        (/\ Deliver(w)
         /\ ResponseFor(i, w)
         /\ Head(tags[w]).by = i
         /\ \A k \in CallNos :
               calls[k].inst = i => calls[k].callId # Head(win[w]).data.callId)
        => (/\ _calls'[i] = _calls[i]
            /\ \A k \in CallNos : calls[k].inst = i => fired'[k] = fired[k])
      ]_vars

\* C19: loopback filtering drops only the instance's own Requests. A
\* Request posted by another instance, for a method registered on the
\* receiver, invokes the handler, and an immediate result is answered with
\* a Response in the same step.
C19_LoopbackOwnOnly ==
    [][\A w \in Windows, i \in Inst :
        (/\ Deliver(w)
         /\ RequestFor(i, w)
         /\ Head(win[w]).data.method # ""
         /\ Registered(_methods[i], Head(win[w]).data.method) # NoHandler)
        => /\ Invokes(i, Head(tags[w]).call,
                      Registered(_methods[i], Head(win[w]).data.method))
           /\ Registered(_methods[i], Head(win[w]).data.method) = "echo"
                => \E m \in NewResponses :
                      m.by = i /\ m.call = Head(tags[w]).call
      ]_vars

\* C19 when the two instances drew different ids
C19_DistinctIds ==
    [][\A w \in Windows, i \in Inst :
        (/\ Deliver(w)
         /\ RequestFor(i, w)
         /\ _id["A"] # _id["B"]
         /\ Head(win[w]).data.method # ""
         /\ Registered(_methods[i], Head(win[w]).data.method) # NoHandler)
        => /\ Invokes(i, Head(tags[w]).call,
                      Registered(_methods[i], Head(win[w]).data.method))
           /\ Registered(_methods[i], Head(win[w]).data.method) = "echo"
                => \E m \in NewResponses :
                      m.by = i /\ m.call = Head(tags[w]).call
      ]_vars

====
